---- MODULE Spec2Model ----
(***************************************************************************)
(* GhostCursor (python_ghost_cursor/playwright_async/_spoof.py): the       *)
(* cursor controller.  One host task calls the public methods one at a     *)
(* time: the explicit operations (move, click, move_to) and, on their own, *)
(* trace_path, toggle_random_move, detect_mobile, get_cdp_session and      *)
(* get_random_page_point; a background task runs the idle loop             *)
(* (random_move) once the host has started it.  Tasks are asyncio          *)
(* coroutines: the code between two awaits runs atomically, so one action  *)
(* of the model completes one await and runs the task up to its next one.  *)
(* Each collaborator call (page.mouse, page.touchscreen, is_connected,     *)
(* query_selector, bounding_box, evaluate, the CDP session) answers with   *)
(* any outcome its interface allows.  The path generator and the overshoot *)
(* model live in the shared package and are modelled from their contract.  *)
(* Spec is the whole controller, SpecOps the controller as create_cursor   *)
(* returns it (no idle loop), SpecIdle the idle loop against move_to, and  *)
(* SpecIdleFair the same under the event loop's scheduling.                *)
(***************************************************************************)
EXTENDS Integers, Sequences, FiniteSets

VARIABLES previous, moving, is_mobile, has_cdp, host, bg,
          lastSent, lastWrite, start, nops, round, nfail

vars == <<previous, moving, is_mobile, has_cdp, host, bg,
          lastSent, lastWrite, start, nops, round, nfail>>

\* ------------------------------------------------------------------ bounds
\* operations the host calls in one behaviour: move, click, move_to, and
\* the start of the idle loop
MaxOps == 2
\* rounds of the idle loop in one behaviour
MaxRounds == 1
\* pointer dispatches that fail in one behaviour
MaxFail == 1

\* ------------------------------------------------- geometry (shared package)
Pt(x, y) == [x |-> x, y |-> y]
origin == Pt(0, 0)
NoPoint == Pt(-1, -1)
NoBox == [x |-> -1, y |-> -1, width |-> -1, height |-> -1]

\* the sample of the plane the model draws points from
Points == {Pt(0, 0), Pt(600, 300), Pt(700, 350), Pt(800, 400)}
\* starting positions given to the constructor (create_cursor's default)
Starts == {origin}
\* bounding boxes the page returns for a target element
Boxes == {[x |-> 650, y |-> 300, width |-> 100, height |-> 100]}
\* window bounds the browser returns for the page's target
Windows == {[width |-> 800, height |-> 400]}
\* the lists of vectors the host passes to trace_path when it calls it itself
TraceInputs == {<<>>, <<Pt(600, 300)>>, <<Pt(600, 300), Pt(800, 400)>>}

overshoot_radius == 120
overshoot_spread == 10
OvershootThreshold == 500

Dist2(a, b) == (a.x - b.x) * (a.x - b.x) + (a.y - b.y) * (a.y - b.y)

InBox(p, box) ==
    /\ box.x <= p.x /\ p.x <= box.x + box.width
    /\ box.y <= p.y /\ p.y <= box.y + box.height

\* get_random_box_point(box): the points a uniform draw inside box can give
get_random_box_point(box) == {p \in Points : InBox(p, box)}

\* should_overshoot(a, b): the move is longer than the threshold
should_overshoot(a, b) == Dist2(a, b) > OvershootThreshold * OvershootThreshold

\* overshoot(coordinate, radius): the points within radius of coordinate
overshoot(coordinate, radius) ==
    {p \in Points : Dist2(p, coordinate) <= radius * radius}

\* the paths between two points: first point start, last point end, a
\* randomized interior; a single point when start and end coincide
Between(a, b) ==
    {m \in Points \ {a, b} : Dist2(a, m) + Dist2(m, b) <= Dist2(a, b)}

PathBetween(a, b) ==
    IF a = b THEN {<<a>>}
    ELSE IF Between(a, b) = {} THEN {<<a, b>>}
    ELSE {<<a, m, b>> : m \in Between(a, b)}

\* path(start, end, spread): end is a point, or a box the path ends inside
path(a, end, spread) ==
    IF "width" \in DOMAIN end
    THEN UNION {PathBetween(a, e) : e \in get_random_box_point(end)}
    ELSE PathBetween(a, end)

\* --------------------------------------------------------------- the state
HostIdle ==
    [pc |-> "idle", op |-> "none", target |-> FALSE, ret |-> "none",
     vectors |-> <<>>, i |-> 0, abort |-> FALSE, flipped |-> FALSE,
     destination |-> NoPoint, overshooting |-> FALSE, to |-> NoPoint,
     box |-> NoBox, target_coords |-> NoPoint, entry |-> NoPoint,
     missing |-> FALSE,
     result |-> "none", log |-> <<>>]

BgOff ==
    [pc |-> "off", ret |-> "random_move", vectors |-> <<>>, i |-> 0,
     abort |-> TRUE, flipped |-> FALSE, rand |-> NoPoint, log |-> <<>>]

\* the whole state as one record, so that the code between two awaits is a
\* function from state to state
Cur ==
    [previous |-> previous, moving |-> moving, is_mobile |-> is_mobile,
     has_cdp |-> has_cdp, host |-> host, bg |-> bg,
     lastSent |-> lastSent, lastWrite |-> lastWrite]

Set(s) ==
    /\ previous' = s.previous
    /\ moving' = s.moving
    /\ is_mobile' = s.is_mobile
    /\ has_cdp' = s.has_cdp
    /\ host' = s.host
    /\ bg' = s.bg
    /\ lastSent' = s.lastSent
    /\ lastWrite' = s.lastWrite

Frame(s, id) == IF id = "host" THEN s.host ELSE s.bg

WithFrame(s, id, f) ==
    IF id = "host" THEN [s EXCEPT !.host = f] ELSE [s EXCEPT !.bg = f]

InTrace(f) == f.pc \in {"mouse_move", "is_connected"}

\* one entry of a task's log of collaborator calls: the call k, its point p,
\* its outcome ok, the flag when it started (sup), and whether the flag had
\* been set since the task's trace began (flipped).  A "path" entry opens a
\* call of trace_path: p is the path's last point and n its length.
Event(k, p, n, s, id) ==
    [k |-> k, p |-> p, n |-> n, ok |-> "pending", sup |-> s.moving,
     flipped |-> Frame(s, id).flipped]

Logged(s, id, k, p) ==
    LET f == Frame(s, id)
    IN  WithFrame(s, id,
                  [f EXCEPT !.log = Append(f.log, Event(k, p, 0, s, id))])

LoggedPath(s, id, vs) ==
    LET f == Frame(s, id)
        last == IF vs = <<>> THEN NoPoint ELSE vs[Len(vs)]
    IN  WithFrame(s, id,
                  [f EXCEPT !.log = Append(f.log,
                                           Event("path", last, Len(vs), s, id))])

\* the outcome of the call in flight, written into its log entry
Outcome(s, id, ok) ==
    LET f == Frame(s, id)
    IN  WithFrame(s, id, [f EXCEPT !.log[Len(f.log)].ok = ok])

\* self.previous = v
SetPrevious(s, id, v, sent) ==
    [s EXCEPT !.previous = v,
              !.lastWrite = [by |-> id, sup |-> s.moving, sent |-> sent]]

Init ==
    /\ start \in Starts
    /\ previous = start
    /\ moving = FALSE
    /\ is_mobile = "None"
    /\ has_cdp = FALSE
    /\ host = HostIdle
    /\ bg = BgOff
    /\ lastSent = NoPoint
    /\ lastWrite = [by |-> "init", sup |-> FALSE, sent |-> FALSE]
    /\ nops = 0
    /\ round = 0
    /\ nfail = 0


\* ------------------------------------------------------------ the program
\* toggle_random_move(random_): self.moving = not random_.  A background
\* trace in progress notes that the flag was set during it.
toggle_random_move(s, random_) ==
    [s EXCEPT !.moving = ~random_,
              !.bg.flipped = @ \/ (~random_ /\ InTrace(s.bg))]

\* an explicit operation returns to its caller
ret_op(s, result) ==
    [s EXCEPT !.host.pc = "idle", !.host.result = result,
              !.host.ret = "none", !.host.vectors = <<>>, !.host.i = 0]

\* click, lines 130-131: the final pause
click_pause(s) == [s EXCEPT !.host.pc = "pause"]

\* click with the test of its line 119 inverted: a tap on a non-touch
\* surface, a press on a touch surface
click_dispatch_inverted(s) ==
    IF s.is_mobile # "False"
    THEN [Logged(s, "host", "down", NoPoint) EXCEPT !.host.pc = "mouse_down"]
    ELSE [Logged(s, "host", "tap", s.host.target_coords)
             EXCEPT !.host.pc = "tap"]

\* click, lines 119-126: press, or tap at target_coords on a touch surface
click_dispatch(s) ==
    IF s.is_mobile = "False"
    THEN [Logged(s, "host", "down", NoPoint) EXCEPT !.host.pc = "mouse_down"]
    ELSE [Logged(s, "host", "tap", s.host.target_coords)
             EXCEPT !.host.pc = "tap"]

\* click, line 118, and detect_mobile: the answer is cached on the controller
click_try(s) ==
    IF s.is_mobile = "None"
    THEN [s EXCEPT !.host.pc = "evaluate"]
    ELSE click_dispatch(s)

\* click without its line 114: the flag stays cleared after the nested move
click_after_move_no_toggle(s) ==
    click_try([s EXCEPT !.host.target_coords = s.previous])

\* click, lines 114-115, after the nested move has returned
click_after_move(s) ==
    LET s1 == toggle_random_move(s, FALSE)
    IN  click_try([s1 EXCEPT !.host.target_coords = s1.previous])

\* move without its line 180: the position stays where the traces left it
move_end_keeps_position(s) ==
    LET s2 == toggle_random_move(s, TRUE)
    IN  IF s2.host.op = "click" THEN click_after_move(s2)
        ELSE ret_op(s2, "returned")

\* move, lines 180-181, then back to the caller
move_end(s) ==
    LET s1 == SetPrevious(s, "host", s.host.destination, FALSE)
        s2 == toggle_random_move(s1, TRUE)
    IN  IF s2.host.op = "click" THEN click_after_move(s2)
        ELSE ret_op(s2, "returned")

\* random_move, lines 76-77, after its trace has returned
random_move_end(s) ==
    LET s1 == SetPrevious(s, "bg", s.bg.rand, FALSE)
    IN  [s1 EXCEPT !.bg.pc = "sleep", !.bg.vectors = <<>>, !.bg.i = 0]

\* trace_path without its line 89: the trace never yields to the flag
AbortNever(s, id) == FALSE

\* trace_path, line 89: the abort test of one iteration
AbortOnMove(s, id) == Frame(s, id).abort /\ s.moving

\* the bounding box move builds around the destination, lines 172-177
CorrectionBox(s) ==
    [x |-> s.host.destination.x, y |-> s.host.destination.y,
     width |-> s.host.box.width, height |-> s.host.box.height]

RECURSIVE trace_path(_, _, _)
RECURSIVE after_trace(_, _, _)

\* the call trace_path(vectors, abort_on_move), whose return leads to ret
begin_trace(s, id, vs, abort, ret, corr) ==
    LET f  == Frame(s, id)
        s1 == WithFrame(s, id, [f EXCEPT !.vectors = vs, !.i = 1,
                                         !.abort = abort, !.ret = ret,
                                         !.flipped = FALSE])
    IN  trace_path(LoggedPath(s1, id, vs), id, corr)

\* trace_path, lines 86-91: the loop from point i up to the next await
trace_path(s, id, corr) ==
    LET f == Frame(s, id)
    IN  IF f.i > Len(f.vectors) THEN after_trace(s, id, corr)
        ELSE IF AbortOnMove(s, id) THEN after_trace(s, id, corr)
        ELSE LET s1 == Logged(s, id, "move", f.vectors[f.i])
             IN  WithFrame(s1, id, [Frame(s1, id) EXCEPT !.pc = "mouse_move"])

\* what follows the return of trace_path in its caller: move_to line 187,
\* move lines 171-181, random_move lines 76-77, or the host itself
after_trace(s, id, corr) ==
    LET f == Frame(s, id)
    IN  CASE f.ret = "move_to" ->
               ret_op(toggle_random_move(s, TRUE), "returned")
          [] f.ret = "trace_path" -> ret_op(s, "returned")
          [] f.ret = "move" ->
               IF f.overshooting
               THEN begin_trace(s, id, corr, FALSE, "correction", corr)
               ELSE move_end(s)
          [] f.ret = "correction" -> move_end(s)
          [] OTHER -> random_move_end(s)

\* trace_path without its line 92: a completed dispatch leaves the position
\* where it was
mouse_move_done_no_update(s, id, ok, corr) ==
    LET f == Frame(s, id)
        v == f.vectors[f.i]
    IN  IF ok
        THEN LET s1 == Outcome(s, id, "ok")
                 s2 == [s1 EXCEPT !.lastSent = v]
                 f2 == Frame(s2, id)
             IN  trace_path(WithFrame(s2, id, [f2 EXCEPT !.i = f.i + 1]),
                            id, corr)
        ELSE LET s1 == Logged(Outcome(s, id, "fail"), id, "conn", NoPoint)
             IN  WithFrame(s1, id, [Frame(s1, id) EXCEPT !.pc = "is_connected"])

\* trace_path, lines 91-93: page.mouse.move(v.x, v.y) has completed or raised
mouse_move_done(s, id, ok, corr) ==
    LET f == Frame(s, id)
        v == f.vectors[f.i]
    IN  IF ok
        THEN LET s1 == Outcome(s, id, "ok")
                 s2 == [SetPrevious(s1, id, v, TRUE) EXCEPT !.lastSent = v]
                 f2 == Frame(s2, id)
             IN  trace_path(WithFrame(s2, id, [f2 EXCEPT !.i = f.i + 1]),
                            id, corr)
        ELSE LET s1 == Logged(Outcome(s, id, "fail"), id, "conn", NoPoint)
             IN  WithFrame(s1, id, [Frame(s1, id) EXCEPT !.pc = "is_connected"])

\* what the awaited call page.browser.is_connected() of line 95 can give:
\* an answer, or an exception (the call raises, or what it returns cannot be
\* awaited)
ConnAnswers == {"True", "False", "raise"}

ConnOutcome(conn) ==
    CASE conn = "True" -> "ok"
      [] conn = "False" -> "fail"
      [] OTHER -> "raised"

\* an exception reaches the host from the call it awaits
raise_to_host(s) ==
    [s EXCEPT !.host.pc = "idle", !.host.result = "raised"]

\* an exception leaves trace_path and its caller: move, move_to and, around
\* its nested move, click catch nothing; random_move's except (line 81)
\* ends the idle loop
trace_raise(s, id) ==
    IF id = "host" THEN raise_to_host(s)
    ELSE [s EXCEPT !.bg.pc = "stopped"]

\* trace_path, lines 95-97: page.browser.is_connected() has answered or
\* raised
is_connected_done(s, id, conn, corr) ==
    LET s1 == Outcome(s, id, ConnOutcome(conn))
        f1 == Frame(s1, id)
    IN  CASE conn = "raise" -> trace_raise(s1, id)
          [] conn = "False" -> after_trace(s1, id, corr)
          [] OTHER ->
               trace_path(WithFrame(s1, id, [f1 EXCEPT !.i = f1.i + 1]),
                          id, corr)

\* move, lines 139-152, up to its first await
move_begin(s, sel) ==
    LET s1 == toggle_random_move(s, FALSE)
    IN  [s1 EXCEPT !.host.pc =
            CASE sel = "str_wait" -> "wait_for_selector"
              [] sel = "str" -> "query_selector"
              [] OTHER -> "scroll"]

\* the exception swallowed: the operation returns as if it had succeeded
move_raise_swallowed(s) ==
    [s EXCEPT !.host.pc = "idle", !.host.result = "returned"]

\* move, lines 143-158: an exception, raised by move (146, 158) or by the
\* page call it awaits (143, 144, 155, 156), leaves move, and click when
\* move is nested in it (line 113 catches nothing)
move_raise(s) ==
    [s EXCEPT !.host.pc = "idle", !.host.result = "raised"]

\* move, lines 145 and 157: the page has no element, or no box for it
Unresolved(s) == [s EXCEPT !.host.missing = TRUE]

\* move without its lines 171-179: the correction path is never traced
bounding_box_done_no_correction(s, box, dest, over, vs) ==
    IF box = NoBox THEN move_raise(Unresolved(s))
    ELSE LET overshooting == should_overshoot(s.previous, dest)
             to == IF overshooting THEN over ELSE dest
             s1 == [s EXCEPT !.host.box = box, !.host.destination = dest,
                             !.host.overshooting = FALSE,
                             !.host.to = to]
         IN  begin_trace(s1, "host", vs, FALSE, "move", <<>>)

\* move, lines 156-169: the box has arrived; sample the destination, decide
\* the overshoot and start the first trace
bounding_box_done(s, box, dest, over, vs) ==
    IF box = NoBox THEN move_raise(Unresolved(s))
    ELSE LET overshooting == should_overshoot(s.previous, dest)
             to == IF overshooting THEN over ELSE dest
             s1 == [s EXCEPT !.host.box = box, !.host.destination = dest,
                             !.host.overshooting = overshooting,
                             !.host.to = to]
         IN  begin_trace(s1, "host", vs, FALSE, "move", <<>>)

\* move, lines 144-150: query_selector has answered
query_selector_done(s, found) ==
    IF found THEN [s EXCEPT !.host.pc = "scroll"]
    ELSE move_raise(Unresolved(s))

\* a new call frame of the host; target says that a selector was given, and
\* entry is the position the operation finds
NewOp(s, op, target) ==
    [s EXCEPT !.host = [HostIdle EXCEPT !.op = op, !.target = target,
                                        !.entry = s.previous]]

\* move(selector)
move(s, sel) == move_begin(NewOp(s, "move", TRUE), sel)

\* click without the test of its line 112: the move is made whether or not
\* a selector was given
click_always_moves(s, sel) ==
    LET s1 == toggle_random_move(NewOp(s, "click", sel # "none"), FALSE)
        s2 == [s1 EXCEPT !.host.target_coords = s1.previous]
    IN  move_begin(s2, sel)

\* click(selector), lines 109-118
click(s, sel) ==
    LET s1 == toggle_random_move(NewOp(s, "click", sel # "none"), FALSE)
        s2 == [s1 EXCEPT !.host.target_coords = s1.previous]
    IN  IF sel # "none" THEN move_begin(s2, sel) ELSE click_try(s2)

\* move_to(destination), lines 184-186
move_to(s, dest, vs) ==
    LET s1 == toggle_random_move(NewOp(s, "move_to", FALSE), FALSE)
    IN  begin_trace([s1 EXCEPT !.host.destination = dest], "host", vs,
                    FALSE, "move_to", <<>>)


\* trace_path(vectors, abort_on_move) called by the host itself
call_trace_path(s, vs, abort) ==
    begin_trace(NewOp(s, "trace_path", FALSE), "host", vs, abort,
                "trace_path", <<>>)

\* detect_mobile() called by the host itself, lines 33-48
detect_mobile(s) ==
    LET s1 == NewOp(s, "detect_mobile", FALSE)
    IN  IF s1.is_mobile = "None" THEN [s1 EXCEPT !.host.pc = "evaluate"]
        ELSE ret_op(s1, "returned")

\* get_random_page_point, lines 57-68, for the host: q is the point drawn,
\* or NoPoint when the window query raises
page_point(s, q) ==
    IF q = NoPoint THEN raise_to_host(s) ELSE ret_op(s, "returned")

\* get_cdp_session() or get_random_page_point() called by the host itself
get_cdp_session(s, op, q) ==
    LET s1 == NewOp(s, op, FALSE)
    IN  IF ~s1.has_cdp THEN [s1 EXCEPT !.host.pc = "cdp"]
        ELSE IF op = "get_cdp_session" THEN ret_op(s1, "returned")
        ELSE page_point(s1, q)

\* get_cdp_session, lines 52-53, for the host: new_cdp_session has answered
\* or raised
get_cdp_session_done(s, ok, q) ==
    IF ~ok THEN raise_to_host(s)
    ELSE LET s1 == [s EXCEPT !.has_cdp = TRUE]
         IN  IF s1.host.op = "get_cdp_session" THEN ret_op(s1, "returned")
             ELSE page_point(s1, q)

\* detect_mobile, line 34: page.evaluate has answered or raised; click
\* catches the exception (lines 118 and 127), the host's own call does not
evaluate_done(s, r) ==
    IF s.host.op = "detect_mobile"
    THEN IF r = "fail" THEN raise_to_host(s)
         ELSE ret_op([s EXCEPT !.is_mobile = r], "returned")
    ELSE IF r = "fail" THEN click_pause(s)
    ELSE click_dispatch([s EXCEPT !.is_mobile = r])

\* click, lines 120-123: page.mouse.down() has completed or raised; hold
\* says that wait_for_click was given, which is read only here
mouse_down_done(s, ok, hold) ==
    IF ~ok THEN click_pause(Outcome(s, "host", "fail"))
    ELSE LET s1 == Outcome(s, "host", "ok")
         IN  IF hold THEN [s1 EXCEPT !.host.pc = "hold"]
             ELSE [Logged(s1, "host", "up", NoPoint)
                      EXCEPT !.host.pc = "mouse_up"]

\* click, lines 122-123: the hold has elapsed
hold_done(s) ==
    [Logged(s, "host", "up", NoPoint) EXCEPT !.host.pc = "mouse_up"]

\* click without its except clause (line 127): a release or tap that raises
\* leaves click as an exception
release_done_raises(s, ok) ==
    IF ok THEN click_pause(Outcome(s, "host", "ok"))
    ELSE move_raise(Outcome(s, "host", "fail"))

\* click, lines 123 and 126-128: mouse.up() or touchscreen.tap() has
\* completed or raised
release_done(s, ok) ==
    click_pause(Outcome(s, "host", IF ok THEN "ok" ELSE "fail"))

\* click, lines 130-131: the pause has elapsed
pause_done(s) == ret_op(toggle_random_move(s, TRUE), "returned")

\* random_move with its except clause inside the round: after a failed window
\* query the round still sleeps and schedules the next one
random_point_reschedules(s, q, vs) ==
    IF q = NoPoint THEN [s EXCEPT !.bg.pc = "sleep"]
    ELSE begin_trace([s EXCEPT !.bg.rand = q], "bg", vs, TRUE,
                     "random_move", <<>>)

\* get_random_page_point, lines 57-68, then random_move line 75; q is the
\* point drawn, or NoPoint when the window query raises: send itself raises,
\* or it answers with an awaitable, which line 58 does not await and line 65
\* subscripts
random_point(s, q, vs) ==
    IF q = NoPoint THEN [s EXCEPT !.bg.pc = "stopped"]
    ELSE begin_trace([s EXCEPT !.bg.rand = q], "bg", vs, TRUE,
                     "random_move", <<>>)

\* random_move, lines 72-74, and get_cdp_session, lines 51-53
random_move(s, q, vs) ==
    LET s1 == [s EXCEPT !.bg.log = <<>>, !.bg.flipped = FALSE]
    IN  IF s1.moving THEN [s1 EXCEPT !.bg.pc = "sleep"]
        ELSE IF ~s1.has_cdp THEN [s1 EXCEPT !.bg.pc = "cdp"]
        ELSE random_point(s1, q, vs)

\* get_cdp_session, lines 52-53: new_cdp_session has answered or raised
cdp_done(s, ok, q, vs) ==
    IF ~ok THEN [s EXCEPT !.bg.pc = "stopped"]
    ELSE random_point([s EXCEPT !.has_cdp = TRUE], q, vs)

\* the viewport box get_random_page_point builds, lines 62-67
WindowBox(w) ==
    [x |-> origin.x, y |-> origin.y, width |-> w.width, height |-> w.height]

\* ------------------------------------------------------------- the actions
Step(s) == Set(s) /\ UNCHANGED <<start, nops, round, nfail>>

Call(s) == Set(s) /\ nops' = nops + 1 /\ UNCHANGED <<start, round, nfail>>

\* a pointer dispatch completes (ok) or raises
Dispatched(s, ok) ==
    /\ Set(s)
    /\ nfail' = IF ok THEN nfail ELSE nfail + 1
    /\ UNCHANGED <<start, nops, round>>

DispatchOutcomes == IF nfail < MaxFail THEN BOOLEAN ELSE {TRUE}

CanCall == host.pc = "idle" /\ nops < MaxOps

CallMove ==
    /\ CanCall
    /\ \E sel \in {"str", "str_wait", "handle"} : Call(move(Cur, sel))

CallClick ==
    /\ CanCall
    /\ \E sel \in {"none", "str", "str_wait", "handle"} :
          Call(click(Cur, sel))

CallMoveTo ==
    /\ CanCall
    /\ \E dest \in Points :
          \E vs \in path(previous, dest, "default") :
             Call(move_to(Cur, dest, vs))

\* toggle_random_move(random_) called by the host itself, between operations
CallToggle ==
    /\ host.pc = "idle"
    /\ \E random_ \in BOOLEAN : Step(toggle_random_move(Cur, random_))

CallTracePath ==
    /\ CanCall
    /\ \E vs \in TraceInputs, abort \in BOOLEAN :
          Call(call_trace_path(Cur, vs, abort))

CallDetectMobile ==
    /\ CanCall
    /\ Call(detect_mobile(Cur))

\* the points a window query may give, or NoPoint when it raises
PagePoints ==
    {NoPoint} \cup UNION {get_random_box_point(WindowBox(w)) : w \in Windows}

CallGetCdpSession ==
    /\ CanCall
    /\ \/ Call(get_cdp_session(Cur, "get_cdp_session", NoPoint))
       \/ \E q \in PagePoints :
             Call(get_cdp_session(Cur, "get_random_page_point", q))

HostCdpDone ==
    /\ host.pc = "cdp"
    /\ \E ok \in BOOLEAN, q \in PagePoints :
          Step(get_cdp_session_done(Cur, ok, q))

\* move, line 143: a timeout of wait_for_selector is passed through
WaitForSelectorDone ==
    /\ host.pc = "wait_for_selector"
    /\ \E ok \in BOOLEAN :
          Step(IF ok THEN [Cur EXCEPT !.host.pc = "query_selector"]
               ELSE move_raise(Cur))

\* move, lines 144-150: query_selector answers an element or None, or it
\* raises, and its exception is passed through
QuerySelectorDone ==
    /\ host.pc = "query_selector"
    /\ \/ \E found \in BOOLEAN : Step(query_selector_done(Cur, found))
       \/ Step(move_raise(Cur))

\* move, lines 155-156: scroll_into_view_if_needed completes, or it raises
\* and its exception is passed through
ScrollDone ==
    /\ host.pc = "scroll"
    /\ \E ok \in BOOLEAN :
          Step(IF ok THEN [Cur EXCEPT !.host.pc = "bounding_box"]
               ELSE move_raise(Cur))

\* move, lines 156-169: bounding_box answers None or a box, or it raises and
\* its exception is passed through
BoundingBoxDone ==
    /\ host.pc = "bounding_box"
    /\ \/ Step(move_raise(Cur))
       \/ Step(bounding_box_done(Cur, NoBox, NoPoint, NoPoint, <<>>))
       \/ \E box \in Boxes :
            \E dest \in get_random_box_point(box) :
              \E over \in overshoot(dest, overshoot_radius) :
                \E vs \in path(previous,
                               IF should_overshoot(previous, dest)
                               THEN over ELSE dest, "default") :
                   Step(bounding_box_done(Cur, box, dest, over, vs))

\* the correction paths move may draw at line 178 when its trace returns
Corrections ==
    IF host.ret = "move" /\ host.overshooting
    THEN path(host.to, CorrectionBox(Cur), overshoot_spread)
    ELSE {<<>>}

HostMouseMoveDone ==
    /\ host.pc = "mouse_move"
    /\ \E ok \in DispatchOutcomes, corr \in Corrections :
          Dispatched(mouse_move_done(Cur, "host", ok, corr), ok)

HostIsConnectedDone ==
    /\ host.pc = "is_connected"
    /\ \E conn \in ConnAnswers, corr \in Corrections :
          Step(is_connected_done(Cur, "host", conn, corr))

EvaluateDone ==
    /\ host.pc = "evaluate"
    /\ \E r \in {"True", "False", "fail"} : Step(evaluate_done(Cur, r))

MouseDownDone ==
    /\ host.pc = "mouse_down"
    /\ \E ok \in DispatchOutcomes, hold \in BOOLEAN :
          Dispatched(mouse_down_done(Cur, ok, hold), ok)

HoldDone ==
    /\ host.pc = "hold"
    /\ Step(hold_done(Cur))

MouseUpDone ==
    /\ host.pc = "mouse_up"
    /\ \E ok \in DispatchOutcomes : Dispatched(release_done(Cur, ok), ok)

TapDone ==
    /\ host.pc = "tap"
    /\ \E ok \in DispatchOutcomes : Dispatched(release_done(Cur, ok), ok)

PauseDone ==
    /\ host.pc = "pause"
    /\ Step(pause_done(Cur))

\* the host starts the idle loop: asyncio.ensure_future(cursor.random_move())
StartRandomMove ==
    /\ bg.pc = "off"
    /\ nops < MaxOps
    /\ Call([Cur EXCEPT !.bg.pc = "scheduled"])

\* the points and paths one round of the idle loop may draw
RandomPoints == PagePoints

RandomPaths(q) ==
    IF q = NoPoint THEN {<<>>} ELSE path(previous, q, "default")

RandomMoveRun ==
    /\ bg.pc = "scheduled"
    /\ IF moving \/ ~has_cdp THEN Step(random_move(Cur, NoPoint, <<>>))
       ELSE \E q \in RandomPoints :
               \E vs \in RandomPaths(q) : Step(random_move(Cur, q, vs))

CdpDone ==
    /\ bg.pc = "cdp"
    /\ \E ok \in BOOLEAN, q \in RandomPoints :
          \E vs \in RandomPaths(q) : Step(cdp_done(Cur, ok, q, vs))

BgMouseMoveDone ==
    /\ bg.pc = "mouse_move"
    /\ \E ok \in DispatchOutcomes :
          Dispatched(mouse_move_done(Cur, "bg", ok, <<>>), ok)

BgIsConnectedDone ==
    /\ bg.pc = "is_connected"
    /\ \E conn \in ConnAnswers :
          Step(is_connected_done(Cur, "bg", conn, <<>>))

\* random_move, lines 77-80: the sleep has elapsed and the next round is
\* scheduled
SleepDone ==
    /\ bg.pc = "sleep"
    /\ round < MaxRounds
    /\ Set([Cur EXCEPT !.bg.pc = "scheduled"])
    /\ round' = round + 1
    /\ UNCHANGED <<start, nops, nfail>>

HostNext ==
    \/ CallMove
    \/ CallClick
    \/ CallMoveTo
    \/ CallToggle
    \/ CallTracePath
    \/ CallDetectMobile
    \/ CallGetCdpSession
    \/ HostCdpDone
    \/ WaitForSelectorDone
    \/ QuerySelectorDone
    \/ ScrollDone
    \/ BoundingBoxDone
    \/ HostMouseMoveDone
    \/ HostIsConnectedDone
    \/ EvaluateDone
    \/ MouseDownDone
    \/ HoldDone
    \/ MouseUpDone
    \/ TapDone
    \/ PauseDone

BgNext ==
    \/ StartRandomMove
    \/ RandomMoveRun
    \/ CdpDone
    \/ BgMouseMoveDone
    \/ BgIsConnectedDone
    \/ SleepDone

Next == HostNext \/ BgNext

\* the controller with the idle loop the host may start
Spec == Init /\ [][Next]_vars

\* the controller as create_cursor returns it: the idle loop is never started
SpecOps == Init /\ [][HostNext]_vars

\* the idle loop against move_to, the explicit operation that sets the flag,
\* traces a path and clears the flag
IdleNext ==
    \/ BgNext
    \/ CallMoveTo
    \/ HostMouseMoveDone
    \/ HostIsConnectedDone

SpecIdle == Init /\ [][IdleNext]_vars

\* the steps of the idle loop once the host has started it
BgRun ==
    \/ RandomMoveRun
    \/ CdpDone
    \/ BgMouseMoveDone
    \/ BgIsConnectedDone
    \/ SleepDone

\* the steps that complete an await of the host's trace
HostRun == HostMouseMoveDone \/ HostIsConnectedDone

\* SpecIdle under the event loop's scheduling: a task that is ready to run
\* runs, a sleep elapses, and a collaborator call answers or raises
SpecIdleFair == SpecIdle /\ WF_vars(BgRun) /\ WF_vars(HostRun)


\* ---------------------------------------------------------------- the logs
IsDispatch(e) == e.k \in {"move", "down", "up", "tap"}

IsTraceEvent(e) == e.k \in {"move", "conn"}

IsMove(e) == e.k = "move"

Markers(log) == {j \in 1..Len(log) : log[j].k = "path"}

\* the last entry of the call of trace_path that entry j opens
SegEnd(log, j) ==
    CHOOSE m \in j..Len(log) :
        /\ \A q \in (j + 1)..m : IsTraceEvent(log[q])
        /\ m = Len(log) \/ ~IsTraceEvent(log[m + 1])

\* the pointer moves that call has started, in order
SegMoves(log, j) == SelectSeq(SubSeq(log, j + 1, SegEnd(log, j)), IsMove)

\* the call of trace_path that entry j of f's log opens has returned
SegReturned(f, j) == SegEnd(f.log, j) < Len(f.log) \/ ~InTrace(f)

AllOk(moves) == \A q \in 1..Len(moves) : moves[q].ok = "ok"

\* the points a trace in flight has started to dispatch are the first i
\* points of its path
TracePrefix(f) ==
    InTrace(f) =>
       LET j  == CHOOSE m \in Markers(f.log) : \A q \in Markers(f.log) : q <= m
           mv == SegMoves(f.log, j)
       IN  /\ Len(mv) = f.i
           /\ f.i <= Len(f.vectors)
           /\ \A q \in 1..Len(mv) : mv[q].p = f.vectors[q]

HostDone == host.pc = "idle" /\ host.result # "none"

\* the operations that claim the controller: each sets the moving flag first
ExplicitOps == {"move", "click", "move_to"}

\* the call of trace_path that entry j opens was left by the exception of
\* is_connected
SegRaised(log, j) ==
    LET m == SegEnd(log, j) IN log[m].k = "conn" /\ log[m].ok = "raised"

\* --------------------------------------------------------------- the claims

\* C1: every exit of an explicit operation (move, click, move_to), by return
\* or by exception, leaves the moving flag cleared.
C1_FlagClearedOnExit ==
    [][(host.op \in ExplicitOps /\ host.pc # "idle" /\ host'.pc = "idle")
          => ~moving']_vars

\* C2: the idle loop never writes the position (previous) in a state where
\* the moving flag is set.
C2_IdleWritesOnlyWhileClear == lastWrite.by = "bg" => ~lastWrite.sup

\* C3: the position is the starting position or the most recent point whose
\* pointer-move dispatch completed successfully.
C3_PositionIsStartOrLastSent == previous = start \/ previous = lastSent

\* C4: after a pointer-move dispatch has failed with the surface
\* still connected, no later point of the same path is dispatched.
C4_StopsAfterFailure ==
    \A j \in 1..Len(host.log) :
       ( /\ j + 1 < Len(host.log)
         /\ host.log[j].k = "move" /\ host.log[j].ok = "fail"
         /\ host.log[j + 1].k = "conn" /\ host.log[j + 1].ok = "ok" )
       => host.log[j + 2].k # "move"

\* C5: a failing pointer-move dispatch never leaves trace_path as an
\* exception, whether the surface is connected or not; and a call of
\* trace_path whose dispatches all succeed, also after an earlier failure,
\* dispatches every point of its path in order and leaves the position at
\* the path's last point.
C5_TraceRecovers ==
    /\ host.result = "raised" =>
          \A j \in 1..Len(host.log) : host.log[j].ok # "fail"
    /\ TracePrefix(host)
    /\ \A j \in Markers(host.log) :
          ( /\ SegReturned(host, j) /\ AllOk(SegMoves(host.log, j))
            /\ ~(host.abort /\ host.log[j].sup) ) =>
              Len(SegMoves(host.log, j)) = host.log[j].n
    /\ ( /\ HostDone /\ host.op = "move_to"
         /\ AllOk(SegMoves(host.log, 1)) ) => previous = host.log[1].p

\* C6: once the surface has been found disconnected after a failed dispatch,
\* the explicit operation dispatches nothing more (no pointer move, press,
\* release or tap).
C6_NoDispatchAfterDisconnect ==
    \A j \in 1..Len(host.log) :
       (host.log[j].k = "conn" /\ host.log[j].ok = "fail") =>
          \A q \in (j + 1)..Len(host.log) : ~IsDispatch(host.log[q])

\* C7 as claimed: once the moving flag has been set during a trace of the
\* idle loop, that trace starts no further dispatch.
C7_NoDispatchAfterFlip ==
    \A j \in 1..Len(bg.log) : bg.log[j].k = "move" => ~bg.log[j].flipped

\* C7 as amended: a trace of the idle loop starts no dispatch while the
\* moving flag is set, and the points it has dispatched are a prefix of its
\* path in order; no exception leaves it but that of is_connected after a
\* failed dispatch; it goes on after the flag was set and cleared again
\* within one dispatch.
C7_NoDispatchWhileFlagSet ==
    /\ \A j \in 1..Len(bg.log) : bg.log[j].k = "move" => ~bg.log[j].sup
    /\ TracePrefix(bg)
    /\ (bg.pc = "stopped" /\ bg.log # <<>>) =>
          \E j \in Markers(bg.log) : SegRaised(bg.log, j)

\* the flag was set during a trace of the idle loop, which returned before
\* the end of its path
C7_Witness ==
    /\ bg.pc = "sleep" /\ bg.flipped /\ moving
    /\ Len(bg.log) > 1
    /\ Len(SegMoves(bg.log, 1)) < bg.log[1].n

\* C8: an explicit operation sets the moving flag before its first await,
\* and the flag is set at every await of the operation, up to click's final
\* pause, also after the move nested in click has cleared it.
C8_FlagSetWhileBusy ==
    (host.op \in ExplicitOps /\ host.pc # "idle") => moving

\* click with a target is in its final pause, after its nested move
C8_Witness ==
    /\ host.op = "click" /\ host.target /\ host.pc = "pause"
    /\ \E j \in 1..Len(host.log) : host.log[j].k = "up"

\* C9: when the target cannot be resolved (no element, or no bounding box),
\* move raises before any motion: nothing is dispatched and the position is
\* unchanged; click with such a target raises the same error and dispatches
\* no press, release or tap.
C9_UnresolvedRaisesBeforeMotion ==
    host.missing =>
       /\ HostDone /\ host.result = "raised"
       /\ host.log = <<>>
       /\ previous = host.entry

\* click was called with a target whose bounding box is unavailable
C9_Witness ==
    /\ host.missing /\ host.op = "click" /\ host.result = "raised"
    /\ host.box = NoBox /\ nops = 2

\* C10: when move overshoots, the last point it dispatches lies inside the
\* bounding box the page returned for the target.
C10_MoveEndsInsideBox ==
    ( /\ host.op \in {"move", "click"} /\ host.overshooting
      /\ ~InTrace(host) /\ host.log # <<>>
      /\ AllOk(SelectSeq(host.log, IsMove)) ) =>
        LET mv == SelectSeq(host.log, IsMove)
        IN  InBox(mv[Len(mv)].p, host.box)

\* the move of the host (alone or nested in click) has resolved its target
\* and sampled its destination
MoveResolved ==
    host.op \in {"move", "click"} /\ host.destination # NoPoint

\* that move has returned to its caller
MoveReturned == MoveResolved /\ ~InTrace(host) /\ host.result # "raised"

\* C11: move composes its motion by the overshoot decision.  When
\* should_overshoot(position, destination) is true it first traces a path
\* from the position to the overshoot point and only then a correction path
\* that starts at the overshoot point; when it is false it traces exactly
\* one path, from the position to the destination, and no correction path.
C11_MoveComposesByOvershoot ==
    MoveResolved =>
       LET log  == host.log
           ms   == Markers(log)
           over == should_overshoot(host.entry, host.destination)
       IN  /\ host.overshooting = over
           /\ 1 \in ms
           /\ SegMoves(log, 1)[1].p = host.entry
           /\ log[1].p = host.to
           /\ IF over
              THEN /\ host.to \in overshoot(host.destination, overshoot_radius)
                   /\ Cardinality(ms) <= 2
                   /\ MoveReturned => Cardinality(ms) = 2
                   /\ \A j \in ms \ {1} :
                         /\ j = SegEnd(log, 1) + 1
                         /\ SegMoves(log, j)[1].p = host.to
              ELSE /\ host.to = host.destination
                   /\ ms = {1}

\* a move that overshoots has returned after both of its paths, the first
\* one ending at an overshoot point other than the destination
C11_Witness ==
    /\ MoveReturned /\ host.op = "move" /\ host.result = "returned"
    /\ host.overshooting /\ host.to # host.destination
    /\ Cardinality(Markers(host.log)) = 2
    /\ AllOk(SelectSeq(host.log, IsMove))

Calls(log, k) == {j \in 1..Len(log) : log[j].k = k}

\* click has passed its try block (lines 117-128)
ClickPastTry ==
    /\ host.op = "click"
    /\ host.pc = "pause" \/ (HostDone /\ host.result = "returned")

\* C13: in click, every pointer move of the nested move has completed before
\* the press or the tap is dispatched.  On a non-touch surface click
\* dispatches one press, then one release once the press has completed, and
\* no tap; on a touch surface it dispatches exactly one tap, at the position
\* the move has left, and no press or release.
C13_ClickOrder ==
    host.op = "click" =>
       LET log   == host.log
           moves == Calls(log, "move")
           downs == Calls(log, "down")
           ups   == Calls(log, "up")
           taps  == Calls(log, "tap")
       IN  /\ \A m \in moves, d \in downs \cup ups \cup taps :
                 m < d /\ log[m].ok # "pending"
           /\ (downs \cup ups \cup taps # {}) => ~InTrace(host)
           /\ is_mobile = "None" => downs \cup ups \cup taps = {}
           /\ is_mobile = "False" =>
                 /\ taps = {}
                 /\ Cardinality(downs) <= 1 /\ Cardinality(ups) <= 1
                 /\ \A u \in ups : \E d \in downs : d < u /\ log[d].ok = "ok"
                 /\ ClickPastTry => Cardinality(downs) = 1
                 /\ (ClickPastTry /\ \A d \in downs : log[d].ok = "ok")
                       => Cardinality(ups) = 1
           /\ is_mobile = "True" =>
                 /\ downs = {} /\ ups = {}
                 /\ Cardinality(taps) <= 1
                 /\ ClickPastTry => Cardinality(taps) = 1
                 /\ \A j \in taps :
                       /\ log[j].p = previous
                       /\ host.target => log[j].p = host.destination

\* click with a target on a touch surface: the nested move has dispatched
\* its points and the tap has followed
C13_Witness ==
    /\ ClickPastTry /\ host.target /\ is_mobile = "True"
    /\ Cardinality(Calls(host.log, "move")) > 1
    /\ \E j \in Calls(host.log, "tap") : host.log[j].ok = "ok"

\* move_to has returned and every pointer move it dispatched completed
MoveToAllOk ==
    /\ HostDone /\ host.op = "move_to"
    /\ AllOk(SegMoves(host.log, 1))

\* C14: when every dispatch succeeds, move_to(destination) has dispatched the
\* whole path, whose last point is destination, and leaves the position
\* equal to destination.
C14_MoveToReachesDestination ==
    MoveToAllOk =>
       /\ host.result = "returned"
       /\ host.log[1].p = host.destination
       /\ Len(SegMoves(host.log, 1)) = host.log[1].n
       /\ lastSent = host.destination
       /\ previous = host.destination

\* move_to to a point other than the position it found has returned after a
\* path of several points, every dispatch having succeeded
C14_Witness ==
    /\ MoveToAllOk
    /\ host.destination # host.entry
    /\ host.log[1].n > 2
    /\ previous = host.destination

\* C15: a running idle loop makes progress while idle.  A round that finds
\* the moving flag set sleeps and schedules the next round; a round that is
\* scheduled with the flag clear leads to a pointer move of the idle loop,
\* unless the flag is set in between or no CDP session could be created.
C15_IdleLoopProgresses ==
    /\ (bg.pc = "sleep" /\ round < MaxRounds) ~> (bg.pc = "scheduled")
    /\ (bg.pc = "scheduled" /\ ~moving) ~>
          \/ bg.pc = "mouse_move"
          \/ moving
          \/ bg.pc = "stopped" /\ ~has_cdp

\* a press, release or tap of the click in hand has raised
ClickDispatchFailed ==
    /\ host.op = "click"
    /\ \E j \in 1..Len(host.log) :
          host.log[j].k \in {"down", "up", "tap"} /\ host.log[j].ok = "fail"

\* C16: a failure of click's press, release or tap is recovered locally.
\* click does not raise: it goes on to its final pause, with the moving flag
\* still set, and returns only from that pause, with the flag cleared.
C16_ClickRecovers ==
    /\ [](ClickDispatchFailed =>
             /\ host.result # "raised"
             /\ host.pc = "pause" \/ HostDone
             /\ host.pc = "pause" => moving
             /\ HostDone => host.result = "returned")
    /\ [][(host.op = "click" /\ host.pc # "idle" /\ host'.pc = "idle"
             /\ host'.result = "returned")
              => (host.pc = "pause" /\ ~moving')]_vars

\* click has returned after its press raised: no release was dispatched
C16_Witness ==
    /\ ClickDispatchFailed /\ HostDone /\ host.result = "returned"
    /\ \E j \in Calls(host.log, "down") : host.log[j].ok = "fail"
    /\ Calls(host.log, "up") = {}

\* C17: click without a target (selector None) calls no trace_path and
\* dispatches no pointer move, and leaves the position as it found it; on a
\* touch surface its tap is dispatched at that position.
C17_ClickWithoutTarget ==
    (host.op = "click" /\ ~host.target) =>
       /\ Markers(host.log) = {}
       /\ Calls(host.log, "move") = {}
       /\ host.destination = NoPoint
       /\ previous = host.entry
       /\ \A j \in Calls(host.log, "tap") : host.log[j].p = host.entry

\* click without a target on a touch surface has tapped at the position an
\* earlier operation had left, away from the starting position
C17_Witness ==
    /\ ClickPastTry /\ ~host.target
    /\ host.entry # start
    /\ previous = host.entry
    /\ \E j \in Calls(host.log, "tap") :
          host.log[j].ok = "ok" /\ host.log[j].p = host.entry

\* C18: whenever move returns without raising, the position is the
\* destination sampled inside the target's box, whether or not a pointer
\* move failed, the surface was found disconnected, or a correction path was
\* traced.
C18_MoveLeavesDestination ==
    MoveReturned =>
       /\ InBox(host.destination, host.box)
       /\ previous = host.destination

\* an overshooting move has returned after the surface was found
\* disconnected, the last point dispatched with success not being the
\* destination
C18_Witness ==
    /\ MoveReturned /\ host.op = "move" /\ host.result = "returned"
    /\ host.overshooting
    /\ \E j \in Calls(host.log, "conn") : host.log[j].ok = "fail"
    /\ lastSent # host.destination
    /\ previous = host.destination

====
